---------------------------- MODULE Spec2Model ----------------------------
(***************************************************************************)
(* Model of abide (snapshot testing for Go): the snapshot registry, its   *)
(* on-disk encoding, the create-or-update workflow of the assertion entry *)
(* points and the end-of-suite cleanup.                                    *)
(*                                                                         *)
(* Text is a sequence of symbols.  A symbol is a string; the text a        *)
(* sequence stands for is the concatenation of its symbols.  The record    *)
(* delimiter "/* snapshot: " and the end of the delimiter line " */" are   *)
(* one symbol each, so strings.Split on the delimiter is a split on a      *)
(* symbol.  White space is the symbols of Whitespace.                      *)
(*                                                                         *)
(* Environment: file reads and writes succeed and os.Getwd succeeds, so    *)
(* the error returns of save, writeSnapshot and Cleanup that only pass on  *)
(* an I/O error are not taken.  A run-time panic of the program is         *)
(* modelled (crashed).                                                     *)
(***************************************************************************)
EXTENDS Integers, Sequences, FiniteSets, TLC

----------------------------------------------------------------------------
(* Go's strings package, on sequences of symbols *)

\* unicode.IsSpace, restricted to the symbols used
Whitespace == {"\n", " ", "\r", "\t"}

RECURSIVE TrimLeft(_)
TrimLeft(s) ==
    IF s # <<>> /\ Head(s) \in Whitespace THEN TrimLeft(Tail(s)) ELSE s

RECURSIVE TrimRight(_)
TrimRight(s) ==
    IF s # <<>> /\ s[Len(s)] \in Whitespace
    THEN TrimRight(SubSeq(s, 1, Len(s) - 1))
    ELSE s

\* strings.TrimSpace / bytes.TrimSpace
TrimSpace(s) == TrimRight(TrimLeft(s))

\* strings.Index for a one-symbol separator; 0 when absent
Index(s, c) ==
    IF \E i \in 1..Len(s) : s[i] = c
    THEN CHOOSE i \in 1..Len(s) : s[i] = c /\ \A j \in 1..(i - 1) : s[j] # c
    ELSE 0

\* strings.Split(s, sep) for a one-symbol separator
RECURSIVE Split(_, _)
Split(s, sep) ==
    LET i == Index(s, sep)
    IN  IF i = 0
        THEN <<s>>
        ELSE <<SubSeq(s, 1, i - 1)>> \o Split(SubSeq(s, i + 1, Len(s)), sep)

\* strings.SplitAfterN(s, sep, 2): one piece when sep is absent, else the
\* text up to and including the first sep, and the rest
SplitAfterN2(s, sep) ==
    LET i == Index(s, sep)
    IN  IF i = 0
        THEN <<s>>
        ELSE <<SubSeq(s, 1, i), SubSeq(s, i + 1, Len(s))>>

HasSuffix(s, suf) ==
    /\ Len(suf) <= Len(s)
    /\ SubSeq(s, Len(s) - Len(suf) + 1, Len(s)) = suf

\* strings.TrimSuffix
TrimSuffix(s, suf) ==
    IF HasSuffix(s, suf) THEN SubSeq(s, 1, Len(s) - Len(suf)) ELSE s

\* strings.Join(lines, sep)
RECURSIVE Join(_, _)
Join(lines, sep) ==
    IF lines = <<>> THEN <<>>
    ELSE IF Len(lines) = 1 THEN lines[1]
    ELSE lines[1] \o sep \o Join(Tail(lines), sep)

\* the first byte of a symbol, for the ordinal order of sort.Strings
Byte(c) ==
    CASE c = "\t" -> 9
      [] c = "\n" -> 10
      [] c = "\r" -> 13
      [] c = " " -> 32
      [] c = " */" -> 32
      [] c = "/* snapshot: " -> 47
      [] c = ":" -> 58
      [] c = "H" -> 72
      [] c = "a" -> 97
      [] c = "b" -> 98
      [] c = "c" -> 99
      [] c = "h" -> 104
      [] c = "w" -> 119
      [] OTHER -> 123

\* s < t in the ordinal string order
RECURSIVE StrLess(_, _)
StrLess(s, t) ==
    IF t = <<>> THEN FALSE
    ELSE IF s = <<>> THEN TRUE
    ELSE IF Byte(Head(s)) # Byte(Head(t)) THEN Byte(Head(s)) < Byte(Head(t))
    ELSE StrLess(Tail(s), Tail(t))

\* sort.Strings of a set of distinct strings
RECURSIVE SortStrings(_)
SortStrings(S) ==
    IF S = {} THEN <<>>
    ELSE LET m == CHOOSE x \in S : \A y \in S \ {x} : StrLess(x, y)
         IN  <<m>> \o SortStrings(S \ {m})

----------------------------------------------------------------------------
(* abide.go: constants and the snapshot record *)

SnapshotsDir == "__snapshots__"
snapshotExt == ".snapshot"
snapshotSeparator == "/* snapshot: "

SnapshotGeneric == ""
SnapshotHTTPRespJSON == "HTTPContentTypeJSON"

\* the empty path ""
NoPath == ""

\* &snapshot{id: id, value: val}: the zero value of the other fields
NewSnapshot(id, val) ==
    [id |-> id, value |-> val, path |-> NoPath,
     evaluated |-> FALSE, shouldRemove |-> FALSE]

\* a snapshots map with no entry
NoSnapshots == [i \in {} |-> NewSnapshot(<<>>, <<>>)]

\* snaps[id] = s
Put(snaps, id, s) ==
    [i \in DOMAIN snaps \cup {id} |-> IF i = id THEN s ELSE snaps[i]]

----------------------------------------------------------------------------
(* encode and decode *)

\* one block of encode: the delimiter line, the value and a blank line
EncodeBlock(s) ==
    <<snapshotSeparator>> \o s.id \o <<" */", "\n">> \o s.value \o <<"\n", "\n">>

RECURSIVE EncodeBlocks(_, _)
EncodeBlocks(snaps, ids) ==
    IF ids = <<>> THEN <<>>
    ELSE EncodeBlock(snaps[Head(ids)]) \o EncodeBlocks(snaps, Tail(ids))

\* encode: blocks in sorted order of id, the whole trimmed
encode(snaps) == TrimSpace(EncodeBlocks(snaps, SortStrings(DOMAIN snaps)))

\* x put in its place in a sorted slice
RECURSIVE InsertSorted(_, _)
InsertSorted(x, ids) ==
    IF ids = <<>> THEN <<x>>
    ELSE IF StrLess(Head(ids), x) THEN <<Head(ids)>> \o InsertSorted(x, Tail(ids))
    ELSE <<x>> \o ids

\* mutant: the slice is left in the order of the iteration
SortSliceKeepsOrder(ids) == ids

\* sort.Strings(ids) on the slice of identifiers the range over the map gave
RECURSIVE SortSlice(_)
SortSlice(ids) ==
    IF ids = <<>> THEN <<>>
    ELSE InsertSorted(Head(ids), SortSlice(Tail(ids)))

\* encode when the range over the map visits the identifiers in the order ids
encodeRange(snaps, ids) == TrimSpace(EncodeBlocks(snaps, SortSlice(ids)))

\* components[1] of a segment exists: the segment holds a newline
SegmentOk(s) == Len(SplitAfterN2(s, "\n")) = 2

\* decode's loop over the segments; a later segment of the same id replaces
\* an earlier one
RECURSIVE DecodeSegments(_, _)
DecodeSegments(segs, snaps) ==
    IF segs = <<>> THEN snaps
    ELSE LET s == Head(segs)
             components == SplitAfterN2(s, "\n")
             id == TrimSuffix(components[1], <<" */", "\n">>)
             val == TrimSpace(components[2])
         IN  IF s = <<>>
             THEN DecodeSegments(Tail(segs), snaps)
             ELSE DecodeSegments(Tail(segs), Put(snaps, id, NewSnapshot(id, val)))

\* decode panics (index out of range) on a non-empty segment without newline
DecodePanics(data) ==
    LET segs == Split(data, snapshotSeparator)
    IN  \E k \in 1..Len(segs) : segs[k] # <<>> /\ ~SegmentOk(segs[k])

\* decode; its error result is always nil.  Defined where it does not panic.
decode(data) == DecodeSegments(Split(data, snapshotSeparator), NoSnapshots)

----------------------------------------------------------------------------
(* the file system and the snapshot directory *)

\* os.Getwd() of the test binary, and its base name
TestingPath == "/src/pkg"
getTestingPackage == "pkg"

\* filepath.Join(dir, name)
PathJoin(dir, name) == dir \o "/" \o name

\* the snapshot directory findOrCreateSnapshotDirectory returns
SnapshotDirectory == PathJoin(TestingPath, SnapshotsDir)

\* the directory entries of the model: <<base name, extension>>
PkgFile == <<getTestingPackage, snapshotExt>>
OtherFile == <<"other", snapshotExt>>
NotesFile == <<"notes", ".txt">>
FileNames == {PkgFile, OtherFile, NotesFile}

FilePath(f) == PathJoin(SnapshotDirectory, f[1] \o f[2])

\* the path writeSnapshot gives every record it writes
PkgPath == FilePath(PkgFile)
OtherPath == FilePath(OtherFile)
NotesPath == FilePath(NotesFile)

\* isSnapshot (the !windows build): the extension is exactly snapshotExt
isSnapshot(f) == f[2] = snapshotExt

\* reloadSnapshots: the paths of the directory's snapshot files
SnapshotPaths(dsk) ==
    {FilePath(f) : f \in {g \in FileNames : FilePath(g) \in DOMAIN dsk /\ isSnapshot(g)}}

----------------------------------------------------------------------------
(* save, load and write *)

\* the keys of snapshotsByPath that save writes
SavedPaths(snaps) == {snaps[i].path : i \in DOMAIN snaps} \ {NoPath}

\* snapshotMap of save for one path: its records not marked shouldRemove
SnapshotMap(snaps, path) ==
    LET ids == {i \in DOMAIN snaps : snaps[i].path = path /\ ~snaps[i].shouldRemove}
    IN  [i \in ids |-> snaps[i]]

\* mutant: save appends the encoding to what the file holds
saveAppends(snaps, dsk) ==
    [p \in DOMAIN dsk \cup SavedPaths(snaps) |->
        IF p \in SavedPaths(snaps)
        THEN (IF p \in DOMAIN dsk THEN dsk[p] ELSE <<>>) \o encode(SnapshotMap(snaps, p))
        ELSE dsk[p]]


\* snapshots.save: every file that owns a record is rewritten as a whole
save(snaps, dsk) ==
    [p \in DOMAIN dsk \cup SavedPaths(snaps) |->
        IF p \in SavedPaths(snaps) THEN encode(SnapshotMap(snaps, p)) ELSE dsk[p]]

\* mutant: a record already in snaps is kept, the first file merged wins
MergeFileKeepsFirst(snaps, p, dsk) ==
    LET s == decode(dsk[p])
    IN  [i \in DOMAIN snaps \cup DOMAIN s |->
            IF i \in DOMAIN snaps THEN snaps[i] ELSE [s[i] EXCEPT !.path = p]]


\* the merge of one file's records into snaps, under the load mutex
MergeFile(snaps, p, dsk) ==
    LET s == decode(dsk[p])
    IN  [i \in DOMAIN snaps \cup DOMAIN s |->
            IF i \in DOMAIN s THEN [s[i] EXCEPT !.path = p] ELSE snaps[i]]

RECURSIVE MergeFiles(_, _, _)
MergeFiles(snaps, order, dsk) ==
    IF order = <<>> THEN snaps
    ELSE MergeFiles(MergeFile(snaps, Head(order), dsk), Tail(order), dsk)

\* the orders in which the per-file goroutines can take the mutex
RECURSIVE Orders(_)
Orders(S) ==
    IF S = {} THEN {<<>>}
    ELSE UNION {{<<p>> \o o : o \in Orders(S \ {p})} : p \in S}

\* parseSnapshotsFromPaths: the registries the concurrent load can produce
parseSnapshotsFromPaths(paths, dsk) ==
    {MergeFiles(NoSnapshots, o, dsk) : o \in Orders(paths)}

\* a goroutine of parseSnapshotsFromPaths panics in decode
ParsePanics(paths, dsk) == \E p \in paths : DecodePanics(dsk[p])

\* mutant: the record written is never evaluated
writeSnapshotUnevaluated(snaps, dsk, id, value, isUpdate) ==
    LET s == [id |-> id, value |-> value, path |-> PkgPath,
              evaluated |-> FALSE, shouldRemove |-> FALSE]
        snaps1 == Put(snaps, id, s)
    IN  [snaps |-> snaps1, disk |-> save(snaps1, dsk)]


\* writeSnapshot: the new record replaces the registry's, then save
writeSnapshot(snaps, dsk, id, value, isUpdate) ==
    LET s == [id |-> id, value |-> value, path |-> PkgPath,
              evaluated |-> isUpdate, shouldRemove |-> FALSE]
        snaps1 == Put(snaps, id, s)
    IN  [snaps |-> snaps1, disk |-> save(snaps1, dsk)]

createSnapshot(snaps, dsk, id, value) == writeSnapshot(snaps, dsk, id, value, FALSE)
updateSnapshot(snaps, dsk, id, value) == writeSnapshot(snaps, dsk, id, value, TRUE)

----------------------------------------------------------------------------
(* assert.go: comparison and messages *)

\* the rendering of a non-empty diff (diffmatchpatch and gotextdiff are
\* external): both styles are empty exactly when the two texts are equal
DiffText(existing, new) == <<"-">> \o existing \o <<"+">> \o new

compareResults(existing, new) ==
    IF existing = new THEN <<>> ELSE DiffText(existing, new)

didNotMatchMessage(id, diff) ==
    <<"\n\n## Existing snapshot does not match results...\n", "## \"">> \o id
    \o <<"\"\n\n">> \o diff
    \o <<"\n\n", "If this change was intentional, run tests again, $ go test -v -- -u\n">>

newSnapshotMessage(id, body) ==
    <<"\n\n## New snapshot found...\n", "## \"">> \o id
    \o <<"\"\n\n">> \o body
    \o <<"\n\n", "To save, run tests again, $ go test -v -- -u\n">>

----------------------------------------------------------------------------
(* assert_http.go: the HTTP dump and its comparison *)

\* the configuration getConfig returns: the default-substitution table
\* (key -> replacement) and the unified-diff toggle
Config == [Defaults |-> [k \in {} |-> <<>>], UnifiedDiff |-> FALSE]

\* the JSON objects of the model, by their text; the second text of each
\* is the one json.MarshalIndent(v, "", "  ") writes
JSONTexts ==
    {"{\"a\":1}", "{\n  \"a\": 1\n}",
     "{\"a\":1,\"b\":2}", "{\n  \"a\": 1,\n  \"b\": 2\n}"}

\* json.Unmarshal of a text of JSONTexts
JSONValue(t) ==
    IF t \in {"{\"a\":1}", "{\n  \"a\": 1\n}"}
    THEN [k \in {"a"} |-> 1]
    ELSE [k \in {"a", "b"} |-> IF k = "a" THEN 1 ELSE 2]

\* json.MarshalIndent of a value of the model
MarshalIndent(v) ==
    IF DOMAIN v = {"a"} THEN "{\n  \"a\": 1\n}" ELSE "{\n  \"a\": 1,\n  \"b\": 2\n}"

\* the text is valid JSON (white space around the document is allowed)
ValidJSON(body) ==
    /\ Len(TrimSpace(body)) = 1
    /\ TrimSpace(body)[1] \in JSONTexts

ParseJSON(body) == JSONValue(TrimSpace(body)[1])

\* the header lines before the first blank line
RECURSIVE HeaderLines(_)
HeaderLines(lines) ==
    IF lines = <<>> \/ TrimSpace(Head(lines)) = <<>>
    THEN <<>>
    ELSE <<Head(lines)>> \o HeaderLines(Tail(lines))

plainToInternalRequest(requestDump) ==
    LET lines == Split(TrimSpace(requestDump), "\n")
        header == HeaderLines(lines)
        headerEnd == Len(header)
    IN  [header |-> header,
         body |-> TrimSpace(Join(SubSeq(lines, headerEnd + 1, Len(lines)), <<"\n">>))]

headerDump(h) == Join(h.header, <<"\n">>)

\* httpRequest.dump: "%s\n\n%s"
dump(h) == headerDump(h) \o <<"\n", "\n">> \o h.body

\* configCleanup of one header line
CleanHeaderLine(line, c) ==
    LET headerItem == Split(line, ":")
        key == TrimSpace(headerItem[1])
    IN  IF key \in DOMAIN c.Defaults
        THEN headerItem[1] \o <<":", " ">> \o c.Defaults[key]
        ELSE line

configCleanup(h, c) ==
    [h EXCEPT !.header = [i \in 1..Len(h.header) |-> CleanHeaderLine(h.header[i], c)]]

\* jsonBodyCleanup returns an error: the body is not blank and not a JSON object
jsonBodyCleanupFails(h) == TrimSpace(h.body) # <<>> /\ ~ValidJSON(h.body)

\* jsonBodyCleanup where it returns nil (no key of the model's documents is
\* in the substitution table); a body it fails on is left as it is
jsonBodyCleanup(h, c) ==
    IF TrimSpace(h.body) = <<>> \/ ~ValidJSON(h.body)
    THEN h
    ELSE [h EXCEPT !.body = <<MarshalIndent(ParseJSON(h.body))>>]

\* jsondiff.Compare(a, b, &opts): the difference
jsondiffCompare(a, b) ==
    IF ~ValidJSON(a) /\ ~ValidJSON(b) THEN "BothArgsAreInvalidJson"
    ELSE IF ~ValidJSON(a) THEN "FirstArgIsInvalidJson"
    ELSE IF ~ValidJSON(b) THEN "SecondArgIsInvalidJson"
    ELSE LET x == ParseJSON(a)
             y == ParseJSON(b)
         IN  IF x = y THEN "FullMatch"
             ELSE IF DOMAIN y \subseteq DOMAIN x /\ \A k \in DOMAIN y : x[k] = y[k]
                  THEN "SupersetMatch"
                  ELSE "NoMatch"

\* jsondiff.Compare: the explanation
jsondiffExplanation(a, b) == <<"{">> \o a \o <<" => ">> \o b \o <<"}">>

\* the header part of the diff: diffmatchpatch on the two header dumps
HeaderDiff(existingR, newR) ==
    IF headerDump(existingR) # headerDump(newR)
    THEN DiffText(headerDump(existingR), headerDump(newR))
    ELSE <<>>

\* compareResultsHTTPRequestJSON from the jsondiff.Compare call on
JSONDiff(diffSoFar, jsonDifference, existingR, newR) ==
    IF jsonDifference = "FullMatch" THEN diffSoFar
    ELSE IF jsonDifference \in {"SupersetMatch", "NoMatch"}
         THEN diffSoFar \o <<"\n">> \o jsondiffExplanation(existingR.body, newR.body)
    ELSE IF jsonDifference = "FirstArgIsInvalidJson"
         THEN diffSoFar \o <<"\n", "ERROR: Existing body is not valid JSON">>
    ELSE IF jsonDifference = "SecondArgIsInvalidJson"
         THEN diffSoFar \o <<"\n", "ERROR: New body is not valid JSON">>
    ELSE IF Len(existingR.body) = Len(newR.body) /\ Len(newR.body) = 0
         THEN diffSoFar \o <<"\n">>
    ELSE diffSoFar \o <<"\n", "ERROR: Neither Existing nor New bodies are valid JSON\n">>
         \o dump(existingR) \o <<"\n">> \o dump(newR)

\* compareResultsHTTPRequestJSON on the two requests after their cleanup
CompareRequests(existingR, newR) ==
    JSONDiff(HeaderDiff(existingR, newR),
             jsondiffCompare(existingR.body, newR.body), existingR, newR)

\* plainToInternalRequest, configCleanup and jsonBodyCleanup of one side
CleanRequest(text) ==
    jsonBodyCleanup(configCleanup(plainToInternalRequest(text), Config), Config)

compareResultsHTTPRequestJSON(existing, new) ==
    CompareRequests(CleanRequest(existing), CleanRequest(new))

\* the switch on the format in createOrUpdateSnapshot
compare(id, existing, data, format) ==
    IF format = SnapshotHTTPRespJSON
    THEN compareResultsHTTPRequestJSON(existing, TrimSpace(data))
    ELSE compareResults(existing, TrimSpace(data))

----------------------------------------------------------------------------
(* bounds and inputs *)

\* calls of the public operations in one run of the test binary
MaxCalls == 3

IdA == <<"a">>
IdB == <<"b">>
IdC == <<"c">>

\* the identifiers test code asserts; IdC is only in a file of an earlier run
Ids == {IdA, IdB}

\* the texts Assert and AssertReader are given: empty, two plain values and
\* a value that ends in a newline
Values == {<<>>, <<"h">>, <<"w">>, <<"h", "\n">>}

\* the dumps of httputil: a header and no body, two JSON bodies of which one
\* has the other's members and one more, a body that is not JSON
DumpHeader == <<"H", ":", " ", "a", "\r", "\n", "\r", "\n">>
Dumps ==
    {DumpHeader, DumpHeader \o <<"{\"a\":1}">>, DumpHeader \o <<"{\"a\":1,\"b\":2}">>,
     DumpHeader \o <<"w">>}

\* the identifiers the HTTP assertions are given
HTTPIds == {IdA}

\* a snapshots map from a map id -> value
MkSnaps(f) == [i \in DOMAIN f |-> NewSnapshot(i, f[i])]

\* snapshot directories an earlier run can have left
PkgContent1 == encode(MkSnaps(IdA :> <<"h">>))
PkgContent2 == encode(MkSnaps((IdA :> <<"h">>) @@ (IdB :> <<"w">>)))
OtherContent1 == encode(MkSnaps((IdA :> <<>>) @@ (IdB :> <<"h">>)))
OtherContent2 == encode(MkSnaps((IdB :> <<"h">>) @@ (IdC :> <<"w">>)))
OtherContent3 == encode(MkSnaps(IdB :> <<>>))
OtherContent4 == encode(MkSnaps(IdB :> <<"h">>))
NotesContent == <<"todo">>

NoFiles == [p \in {} |-> <<>>]

InitDisks ==
    { NoFiles,
      PkgPath :> PkgContent1,
      PkgPath :> PkgContent2,
      OtherPath :> OtherContent1,
      (PkgPath :> PkgContent1) @@ (OtherPath :> OtherContent2),
      (PkgPath :> PkgContent2) @@ (OtherPath :> OtherContent2),
      (PkgPath :> PkgContent1) @@ (NotesPath :> NotesContent),
      OtherPath :> OtherContent3,
      (PkgPath :> PkgContent1) @@ (OtherPath :> OtherContent4) }

----------------------------------------------------------------------------
(* state *)

VARIABLES
    args,             \* the flags: shouldUpdate (-u) and singleRun
    dirExists,        \* the snapshot directory exists
    disk,             \* the files of the snapshot directory: path -> content
    snapshotsLoaded,  \* the sync.Once of loadSnapshots is done
    allSnapshots,     \* the registry: id -> snapshot
    crashed,          \* the process ended in a run-time panic
    ret,              \* what the last call did: results, messages, output
    nCalls,           \* the number of calls made
    touched,          \* history: the ids an assertion found or created
    codec,            \* encode and decode applied to an input on their own
    jsonDoc,          \* the key substitution applied to a JSON document
    conc,             \* tests that run in parallel: positions, locals, locks
    startDisk         \* history: the files the run started from

vars == <<args, dirExists, disk, snapshotsLoaded, allSnapshots, crashed, ret,
          nCalls, touched, codec, jsonDoc, conc, startDisk>>

\* the variables of the functions and the schedules studied on their own,
\* and the history no call changes
aside == <<codec, jsonDoc, conc, startDisk>>

\* the result of a call.  op: "none" before the first call, else
\* "createOrUpdateSnapshot" (an assertion that reached the workflow),
\* "assertHTTP" (an assertion that assertHTTP ended before it), "Cleanup",
\* "CleanupOrFail".  found, existing, diff: the lookup and the comparison.
\* created, updated, saved: what was written.  failed, fatal, msg: t.Error
\* and t.Fatal.  err: the error returned ("" is nil).
NoRet ==
    [op |-> "none", id |-> <<>>, data |-> <<>>, format |-> SnapshotGeneric,
     found |-> FALSE, existing |-> <<>>, diff |-> <<>>,
     created |-> FALSE, updated |-> FALSE, saved |-> FALSE,
     failed |-> FALSE, fatal |-> FALSE, msg |-> <<>>,
     stdout |-> {}, stderr |-> {}, err |-> "", panicked |-> FALSE]

\* codec.  phase: what is at hand, "snaps" (a record set), "data" (a file
\* content), "panic" (decode panicked) or "none".  last: the step that gave
\* it.  before: the record set the last encode was given.  order: the order
\* in which that encode's range visited the map.  n: steps taken.
NoCodec ==
    [phase |-> "none", snaps |-> NoSnapshots, data |-> <<>>, last |-> "input",
     before |-> NoSnapshots, order |-> <<>>, n |-> 0]

\* jsonDoc.  phase: "input" (a parsed document), "clean" (after the
\* substitution) or "none".  before: the document as parsed.  doc: jsonIface.
NoJSONDoc == [phase |-> "none", before |-> <<>>, doc |-> <<>>]

\* the tests that run in parallel (t.Parallel), by number
Tests == {1, 2}

\* conc, when tests run in parallel.
\*   pc[t]: where test t is in createOrUpdateSnapshot; id, data: its arguments;
\*   found, existing: what getSnapshot gave it; buf: what its save is to
\*   write, path -> content; failed: t.Error was called; wrote: it went
\*   through writeSnapshot.
\*   mutex: the test that holds allSnapMutex, or 0.
\*   once: the sync.Once of loadSnapshots: "idle", "running", "done";
\*   loads: how often reloadSnapshots was entered.
\*   tasks: the goroutines of parseSnapshotsFromPaths, path -> position;
\*   loadMutex: the path of the goroutine that holds the local mutex, or "";
\*   snaps: the local map; merged: the paths in the order of their merge.
\*   actor, step: who took the last step (0: a goroutine of the load) and which.
NoConc ==
    [pc |-> [t \in Tests |-> "off"], id |-> [t \in Tests |-> <<>>],
     data |-> [t \in Tests |-> <<>>], found |-> [t \in Tests |-> FALSE],
     existing |-> [t \in Tests |-> <<>>], buf |-> [t \in Tests |-> NoFiles],
     failed |-> [t \in Tests |-> FALSE], wrote |-> [t \in Tests |-> FALSE],
     mutex |-> 0, once |-> "idle", loads |-> 0,
     tasks |-> [p \in {} |-> ""],
     loadMutex |-> NoPath, snaps |-> NoSnapshots, merged |-> <<>>,
     actor |-> 0, step |-> "none"]

Init ==
    /\ args \in [shouldUpdate : BOOLEAN, singleRun : BOOLEAN]
    /\ disk \in InitDisks
    /\ dirExists \in (IF disk = NoFiles THEN BOOLEAN ELSE {TRUE})
    /\ snapshotsLoaded = FALSE
    /\ allSnapshots = NoSnapshots
    /\ crashed = FALSE
    /\ ret = NoRet
    /\ nCalls = 0
    /\ touched = {}
    /\ codec = NoCodec
    /\ jsonDoc = NoJSONDoc
    /\ conc = NoConc
    /\ startDisk = disk

----------------------------------------------------------------------------
(* the create-or-update workflow *)

\* mutant: snapshot.evaluated = true is missing after createSnapshot
NoSnapshotFoundUnevaluated(snaps, dsk, id, data, base) ==
    IF ~args.shouldUpdate
    THEN [snaps |-> snaps, disk |-> dsk,
          ret |-> [base EXCEPT !.failed = TRUE,
                               !.msg = newSnapshotMessage(id, data)]]
    ELSE LET w == createSnapshot(snaps, dsk, id, data)
         IN  [snaps |-> w.snaps, disk |-> w.disk,
              ret |-> [base EXCEPT !.created = TRUE, !.saved = TRUE]]

\* mutant: the snapshot is created whether or not -u is given
NoSnapshotFoundAlwaysCreates(snaps, dsk, id, data, base) ==
    LET w == createSnapshot(snaps, dsk, id, data)
    IN  [snaps |-> [w.snaps EXCEPT ![id].evaluated = TRUE],
         disk |-> w.disk,
         ret |-> [base EXCEPT !.created = TRUE, !.saved = TRUE,
                              !.failed = ~args.shouldUpdate,
                              !.msg = IF args.shouldUpdate THEN <<>>
                                      ELSE newSnapshotMessage(id, data)]]


\* createOrUpdateSnapshot when getSnapshot returned nil: t.Error without -u,
\* else createSnapshot and snapshot.evaluated = true
NoSnapshotFound(snaps, dsk, id, data, base) ==
    IF ~args.shouldUpdate
    THEN [snaps |-> snaps, disk |-> dsk,
          ret |-> [base EXCEPT !.failed = TRUE,
                               !.msg = newSnapshotMessage(id, data)]]
    ELSE LET w == createSnapshot(snaps, dsk, id, data)
         IN  [snaps |-> [w.snaps EXCEPT ![id].evaluated = TRUE],
              disk |-> w.disk,
              ret |-> [base EXCEPT !.created = TRUE, !.saved = TRUE,
                                   !.stdout = {<<"Creating snapshot '">> \o id \o <<"'\n">>}]]

\* mutant: no return after updateSnapshot, so t.Error follows the update
DiffOutcomeNoReturn(snaps, dsk, id, data, found) ==
    IF found.diff = <<>>
    THEN [snaps |-> snaps, disk |-> dsk, ret |-> found]
    ELSE IF args.shouldUpdate
    THEN LET w == updateSnapshot(snaps, dsk, id, data)
         IN  [snaps |-> w.snaps, disk |-> w.disk,
              ret |-> [found EXCEPT !.updated = TRUE, !.saved = TRUE,
                                    !.failed = TRUE,
                                    !.msg = didNotMatchMessage(id, found.diff)]]
    ELSE [snaps |-> snaps, disk |-> dsk,
          ret |-> [found EXCEPT !.failed = TRUE,
                                !.msg = didNotMatchMessage(id, found.diff)]]


\* createOrUpdateSnapshot from "if diff != """ on: nothing on an empty diff,
\* updateSnapshot with -u, else t.Error
DiffOutcome(snaps, dsk, id, data, found) ==
    IF found.diff = <<>>
    THEN [snaps |-> snaps, disk |-> dsk, ret |-> found]
    ELSE IF args.shouldUpdate
    THEN LET w == updateSnapshot(snaps, dsk, id, data)
         IN  [snaps |-> w.snaps, disk |-> w.disk,
              ret |-> [found EXCEPT !.updated = TRUE, !.saved = TRUE,
                                    !.stdout = {<<"Updating snapshot '">> \o id \o <<"'\n">>}]]
    ELSE [snaps |-> snaps, disk |-> dsk,
          ret |-> [found EXCEPT !.failed = TRUE,
                                !.msg = didNotMatchMessage(id, found.diff)]]

\* createOrUpdateSnapshot when getSnapshot returned a record: it is marked
\* evaluated and compared
SnapshotFound(snaps, dsk, id, data, format, base) ==
    DiffOutcome([snaps EXCEPT ![id].evaluated = TRUE], dsk, id, data,
                [base EXCEPT !.found = TRUE, !.existing = snaps[id].value,
                             !.diff = compare(id, snaps[id].value, data, format)])

\* the result record of a call of createOrUpdateSnapshot, before its outcome
WorkflowRet(id, data, format) ==
    [NoRet EXCEPT !.op = "createOrUpdateSnapshot", !.id = id, !.data = data,
                  !.format = format]

\* createOrUpdateSnapshot after getSnapshot has loaded the registry snaps:
\* the registry, the disk and the outcome of the call
Workflow(snaps, dsk, id, data, format) ==
    IF id \notin DOMAIN snaps
    THEN NoSnapshotFound(snaps, dsk, id, data, WorkflowRet(id, data, format))
    ELSE SnapshotFound(snaps, dsk, id, data, format, WorkflowRet(id, data, format))

\* loadSnapshots: the registries getSnapshot can read.  The load runs once.
LoadedSnapshots ==
    IF snapshotsLoaded
    THEN {allSnapshots}
    ELSE parseSnapshotsFromPaths(SnapshotPaths(disk), disk)

\* the first load panics in decode
LoadPanics == ~snapshotsLoaded /\ ParsePanics(SnapshotPaths(disk), disk)

createOrUpdateSnapshot(id, data, format) ==
    IF LoadPanics
    THEN /\ crashed' = TRUE
         /\ dirExists' = TRUE
         /\ ret' = [WorkflowRet(id, data, format) EXCEPT !.panicked = TRUE]
         /\ UNCHANGED <<disk, snapshotsLoaded, allSnapshots, touched>>
    ELSE \E snaps \in LoadedSnapshots :
            LET r == Workflow(snaps, disk, id, data, format)
            IN  /\ allSnapshots' = r.snaps
                /\ disk' = r.disk
                /\ ret' = r.ret
                /\ snapshotsLoaded' = TRUE
                /\ dirExists' = TRUE
                /\ touched' = IF r.ret.found \/ r.ret.created
                              THEN touched \cup {id}
                              ELSE touched
                /\ UNCHANGED crashed

----------------------------------------------------------------------------
(* the public operations *)

\* Assert and AssertReader: the text of the value, generic format
AssertGeneric(id, data) ==
    /\ ~crashed
    /\ nCalls < MaxCalls
    /\ nCalls' = nCalls + 1
    /\ createOrUpdateSnapshot(id, data, SnapshotGeneric)
    /\ UNCHANGED <<args, aside>>

\* AssertHTTPResponse, AssertHTTPRequest, AssertHTTPRequestOut: assertHTTP
\* on the dump, isJSON from the Content-Type header
AssertHTTP(id, body, isJSON) ==
    /\ ~crashed
    /\ nCalls < MaxCalls
    /\ nCalls' = nCalls + 1
    /\ UNCHANGED <<args, aside>>
    /\ LET h == configCleanup(plainToInternalRequest(body), Config)
       IN  IF isJSON /\ jsonBodyCleanupFails(h)
           THEN /\ ret' = [NoRet EXCEPT !.op = "assertHTTP", !.id = id,
                                       !.data = dump(h),
                                       !.format = SnapshotHTTPRespJSON,
                                       !.fatal = TRUE,
                                       !.msg = <<"invalid character">>]
                /\ UNCHANGED <<dirExists, disk, snapshotsLoaded, allSnapshots,
                               crashed, touched>>
           ELSE IF isJSON
           THEN createOrUpdateSnapshot(id, dump(jsonBodyCleanup(h, Config)),
                                       SnapshotHTTPRespJSON)
           ELSE createOrUpdateSnapshot(id, dump(h), SnapshotGeneric)

\* mutant: unused records are marked whatever the flags
MarkUnusedAnyMode(snaps) ==
    [i \in DOMAIN snaps |->
        IF ~snaps[i].evaluated
        THEN [snaps[i] EXCEPT !.shouldRemove = TRUE]
        ELSE snaps[i]]


\* the loop of Cleanup: unevaluated records are marked in update mode unless
\* this is a single run
MarkUnused(snaps) ==
    [i \in DOMAIN snaps |->
        IF ~snaps[i].evaluated /\ args.shouldUpdate /\ ~args.singleRun
        THEN [snaps[i] EXCEPT !.shouldRemove = TRUE]
        ELSE snaps[i]]

\* the lines Cleanup prints
RemovedNotices(snaps) ==
    {<<"Removing unused snapshot '">> \o snaps[i].id \o <<"'\n">> :
        i \in {j \in DOMAIN snaps :
                 ~snaps[j].evaluated /\ args.shouldUpdate /\ ~args.singleRun}}

\* Cleanup as a step on the state
CleanupStep(op) ==
    /\ allSnapshots' = MarkUnused(allSnapshots)
    /\ disk' = save(MarkUnused(allSnapshots), disk)
    /\ ret' = [NoRet EXCEPT !.op = op, !.saved = TRUE,
                            !.stdout = RemovedNotices(allSnapshots)]
    /\ UNCHANGED <<args, dirExists, snapshotsLoaded, crashed, touched>>

Cleanup ==
    /\ ~crashed
    /\ nCalls < MaxCalls
    /\ nCalls' = nCalls + 1
    /\ CleanupStep("Cleanup")
    /\ UNCHANGED aside

\* mutant: every record is counted, evaluated or not
UnusedCountsAll(snaps) == DOMAIN snaps


\* the records CleanupOrFail counts
Unused(snaps) == {i \in DOMAIN snaps : ~snaps[i].evaluated}

CleanupOrFail ==
    /\ ~crashed
    /\ nCalls < MaxCalls
    /\ nCalls' = nCalls + 1
    /\ UNCHANGED aside
    /\ IF args.singleRun
       THEN /\ ret' = [NoRet EXCEPT !.op = "CleanupOrFail"]
            /\ UNCHANGED <<args, dirExists, disk, snapshotsLoaded, allSnapshots,
                           crashed, touched>>
       ELSE IF args.shouldUpdate
       THEN CleanupStep("CleanupOrFail")
       ELSE LET failed == Cardinality(Unused(allSnapshots))
            IN  /\ ret' = [NoRet EXCEPT
                             !.op = "CleanupOrFail",
                             !.stderr = {<<"Unused snapshot '">> \o allSnapshots[i].id \o <<"'\n">> :
                                            i \in Unused(allSnapshots)},
                             !.err = IF failed > 0
                                     THEN ToString(failed) \o " unused snapshots"
                                     ELSE ""]
                /\ UNCHANGED <<args, dirExists, disk, snapshotsLoaded,
                               allSnapshots, crashed, touched>>

Next ==
    \/ \E id \in Ids, data \in Values : AssertGeneric(id, data)
    \/ \E id \in HTTPIds, body \in Dumps, isJSON \in BOOLEAN : AssertHTTP(id, body, isJSON)
    \/ Cleanup
    \/ CleanupOrFail

Spec == Init /\ [][Next]_vars

----------------------------------------------------------------------------
(* encode and decode on their own *)

\* steps of encode and decode on one input
MaxCodecSteps == 3

\* the values of the record sets given to encode: empty, plain, of two
\* lines, and one that ends in a newline
CodecValues == {<<>>, <<"h">>, <<"w">>, <<"h", "\n", "w">>, <<"h", "\n">>}

\* the identifiers of the record sets given to encode: one is a prefix of
\* another, one is in upper case
CodecIds == {IdA, IdB, <<"a", "b">>, <<"H">>}

\* the record sets given to encode: every map from some of CodecIds to
\* CodecValues
CodecSnaps ==
    UNION {{MkSnaps(f) : f \in [D -> CodecValues]} : D \in SUBSET CodecIds}

\* file contents written by hand in the format of section 6 of the
\* specification: a block with an empty value, blocks with a trailing
\* newline, and blocks separated by more blank lines
CodecData ==
    { <<snapshotSeparator, "a", " */", "\n", "\n", "\n">>,
      <<snapshotSeparator, "a", " */", "\n", "h", "\n", "\n",
        snapshotSeparator, "b", " */", "\n", "w", "\n">>,
      <<snapshotSeparator, "a", " */", "\n", "h", "\n", "\n", "\n",
        snapshotSeparator, "b", " */", "\n", "\n", "\n">> }

InitCodec ==
    /\ args = [shouldUpdate |-> FALSE, singleRun |-> FALSE]
    /\ disk = NoFiles
    /\ dirExists = FALSE
    /\ snapshotsLoaded = FALSE
    /\ allSnapshots = NoSnapshots
    /\ crashed = FALSE
    /\ ret = NoRet
    /\ nCalls = 0
    /\ touched = {}
    /\ jsonDoc = NoJSONDoc
    /\ conc = NoConc
    /\ startDisk = disk
    /\ \/ \E S \in CodecSnaps : codec = [NoCodec EXCEPT !.phase = "snaps", !.snaps = S]
       \/ \E b \in CodecData : codec = [NoCodec EXCEPT !.phase = "data", !.data = b]

CodecUnchanged ==
    UNCHANGED <<args, dirExists, disk, snapshotsLoaded, allSnapshots, crashed,
                ret, nCalls, touched, jsonDoc, conc, startDisk>>

\* data, err := encode(snaps)
CodecEncode ==
    /\ codec.phase = "snaps"
    /\ codec.n < MaxCodecSteps
    /\ \E ids \in Orders(DOMAIN codec.snaps) :
          codec' = [codec EXCEPT !.phase = "data",
                                 !.data = encodeRange(codec.snaps, ids),
                                 !.last = "encode", !.before = codec.snaps,
                                 !.order = ids, !.n = codec.n + 1]
    /\ CodecUnchanged

\* snaps, err := decode(data)
CodecDecode ==
    /\ codec.phase = "data"
    /\ codec.n < MaxCodecSteps
    /\ codec' = IF DecodePanics(codec.data)
                THEN [codec EXCEPT !.phase = "panic", !.last = "decode",
                                   !.n = codec.n + 1]
                ELSE [codec EXCEPT !.phase = "snaps", !.snaps = decode(codec.data),
                                   !.last = "decode", !.n = codec.n + 1]
    /\ CodecUnchanged

NextCodec == CodecEncode \/ CodecDecode

SpecCodec == InitCodec /\ [][NextCodec]_vars

----------------------------------------------------------------------------
(* json.go: the key substitution of jsonBodyCleanup, on its own *)

\* the values json.Unmarshal gives: a scalar (t = "s", v its text), an
\* object (t = "o", m its members, each a key and a value) or an array
\* (t = "a", e its elements)
JScalar(v) == [t |-> "s", v |-> v, m |-> <<>>, e |-> <<>>]
JObject(m) == [t |-> "o", v |-> "", m |-> m, e |-> <<>>]
JArray(e) == [t |-> "a", v |-> "", m |-> <<>>, e |-> e]
JMember(k, val) == [key |-> k, val |-> val]

\* updateMap(key, value, m): the switch on the type of each member's value
RECURSIVE updateMap(_, _, _)
updateMap(key, value, obj) ==
    JObject([i \in 1..Len(obj.m) |->
        LET k == obj.m[i].key
            v == obj.m[i].val
        IN  IF v.t = "a"
            THEN JMember(k, JArray([j \in 1..Len(v.e) |->
                                       IF v.e[j].t = "o"
                                       THEN updateMap(key, value, v.e[j])
                                       ELSE v.e[j]]))
            ELSE IF v.t = "o"
            THEN JMember(k, updateMap(key, value, v))
            ELSE IF k = key THEN JMember(k, value) ELSE obj.m[i]])

updateKeyValuesInMap(key, value, obj) == updateMap(key, value, obj)

\* the loop of jsonBodyCleanup over c.Defaults, in the order keys
RECURSIVE UpdateAll(_, _, _)
UpdateAll(keys, defaults, obj) ==
    IF keys = <<>> THEN obj
    ELSE UpdateAll(Tail(keys), defaults,
                   updateKeyValuesInMap(Head(keys), defaults[Head(keys)], obj))

\* the default table of the configuration: one key, a scalar replacement
SubstDefaults == [k \in {"k"} |-> JScalar("D")]

\* documents: values of nesting depth 0 to 3 over the keys "k" (in the
\* table) and "x" (not in it)
JValues0 == {JScalar("1")}
JObjectsOver(V) ==
    {JObject(<<>>)}
        \cup {JObject(<<JMember(k, v)>>) : k \in {"k", "x"}, v \in V}
JArraysOver(V) == {JArray(<<>>)} \cup {JArray(<<v>>) : v \in V}
JValues1 == JValues0 \cup JObjectsOver(JValues0) \cup JArraysOver(JValues0)
JValues2 == JValues0 \cup JObjectsOver(JValues1) \cup JArraysOver(JValues1)
JValues3 == JValues0 \cup JObjectsOver(JValues2) \cup JArraysOver(JValues2)

\* documents written by hand: an object in an array in an array, two
\* members, an array of two objects
JHandDocs ==
    { JObject(<<JMember("x", JArray(<<JArray(<<JObject(<<JMember("k", JScalar("1"))>>)>>)>>))>>),
      JObject(<<JMember("k", JScalar("1")), JMember("x", JScalar("1"))>>),
      JObject(<<JMember("x", JArray(<<JObject(<<JMember("k", JScalar("1"))>>),
                                      JObject(<<JMember("x", JScalar("1"))>>)>>))>>) }

JDocs == {d \in JObjectsOver(JValues3) : d.m # <<>>} \cup JHandDocs

InitJSON ==
    /\ args = [shouldUpdate |-> FALSE, singleRun |-> FALSE]
    /\ disk = NoFiles
    /\ dirExists = FALSE
    /\ snapshotsLoaded = FALSE
    /\ allSnapshots = NoSnapshots
    /\ crashed = FALSE
    /\ ret = NoRet
    /\ nCalls = 0
    /\ touched = {}
    /\ codec = NoCodec
    /\ conc = NoConc
    /\ startDisk = disk
    /\ \E d \in JDocs : jsonDoc = [phase |-> "input", before |-> d, doc |-> d]

\* jsonBodyCleanup between json.Unmarshal and json.MarshalIndent
SubstituteDefaults ==
    /\ jsonDoc.phase = "input"
    /\ \E keys \in Orders(DOMAIN SubstDefaults) :
          jsonDoc' = [jsonDoc EXCEPT !.phase = "clean",
                                     !.doc = UpdateAll(keys, SubstDefaults, jsonDoc.doc)]
    /\ UNCHANGED <<args, dirExists, disk, snapshotsLoaded, allSnapshots, crashed,
                   ret, nCalls, touched, codec, conc, startDisk>>

NextJSON == SubstituteDefaults

SpecJSON == InitJSON /\ [][NextJSON]_vars

----------------------------------------------------------------------------
(* tests in parallel: createOrUpdateSnapshot step by step *)

\* the arguments of the assertions of the two tests: different identifiers
TestIds == [t \in Tests |-> IF t = 1 THEN IdA ELSE IdB]
ConcValues == {<<"h">>, <<"w">>}

\* the snapshot directories the run starts from; the last cannot be decoded
ConcDisks ==
    { NoFiles,
      PkgPath :> PkgContent1,
      (PkgPath :> PkgContent2) @@ (OtherPath :> OtherContent2),
      (PkgPath :> PkgContent1) @@ (NotesPath :> NotesContent),
      OtherPath :> OtherContent3 }

InitConc ==
    /\ args \in [shouldUpdate : BOOLEAN, singleRun : {FALSE}]
    /\ disk \in ConcDisks
    /\ dirExists = (disk # NoFiles)
    /\ snapshotsLoaded = FALSE
    /\ allSnapshots = NoSnapshots
    /\ crashed = FALSE
    /\ ret = NoRet
    /\ nCalls = 0
    /\ touched = {}
    /\ codec = NoCodec
    /\ jsonDoc = NoJSONDoc
    /\ startDisk = disk
    /\ \E d \in [Tests -> ConcValues] :
          conc = [NoConc EXCEPT !.pc = [t \in Tests |-> "start"],
                                !.id = TestIds, !.data = d]

\* what no step of a test or of the load changes
ConcFrame == UNCHANGED <<args, ret, nCalls, touched, codec, jsonDoc, startDisk>>

\* mutant: Do runs its function for every call made before a load is done
OnceFreeUntilDone == conc.once # "done"


\* snapshotsLoaded.Do may run its function: no call has entered it
OnceFree == conc.once = "idle"

\* loadSnapshots, first caller: Do enters reloadSnapshots
OnceEnter(t) ==
    /\ ~crashed
    /\ conc.pc[t] = "start"
    /\ OnceFree
    /\ conc' = [conc EXCEPT !.pc[t] = "scan", !.once = "running",
                            !.loads = @ + 1, !.actor = t, !.step = "enter"]
    /\ ConcFrame
    /\ UNCHANGED <<dirExists, disk, snapshotsLoaded, allSnapshots, crashed>>

\* loadSnapshots, a caller after the load: Do returns at once.  A caller
\* during the load waits in Do.
OnceSkip(t) ==
    /\ ~crashed
    /\ conc.pc[t] = "start"
    /\ conc.once = "done"
    /\ conc' = [conc EXCEPT !.pc[t] = "get", !.actor = t, !.step = "skip"]
    /\ ConcFrame
    /\ UNCHANGED <<dirExists, disk, snapshotsLoaded, allSnapshots, crashed>>

\* reloadSnapshots up to the go statements of parseSnapshotsFromPaths
Scan(t) ==
    /\ ~crashed
    /\ conc.pc[t] = "scan"
    /\ dirExists' = TRUE
    /\ conc' = [conc EXCEPT !.pc[t] = "wait",
                            !.tasks = [p \in SnapshotPaths(disk) |-> "read"],
                            !.snaps = NoSnapshots, !.actor = t, !.step = "scan"]
    /\ ConcFrame
    /\ UNCHANGED <<disk, snapshotsLoaded, allSnapshots, crashed>>

\* a goroutine of the load: os.Open, ioutil.ReadAll, decode
TaskRead(p) ==
    /\ ~crashed
    /\ p \in DOMAIN conc.tasks
    /\ conc.tasks[p] = "read"
    /\ crashed' = DecodePanics(disk[p])
    /\ conc' = [conc EXCEPT !.tasks[p] = IF DecodePanics(disk[p]) THEN "panic" ELSE "lock",
                            !.actor = 0, !.step = "read"]
    /\ ConcFrame
    /\ UNCHANGED <<dirExists, disk, snapshotsLoaded, allSnapshots>>

\* mutex.Lock()
TaskLock(p) ==
    /\ ~crashed
    /\ p \in DOMAIN conc.tasks
    /\ conc.tasks[p] = "lock"
    /\ conc.loadMutex = NoPath
    /\ conc' = [conc EXCEPT !.tasks[p] = "merge", !.loadMutex = p,
                            !.actor = 0, !.step = "tasklock"]
    /\ ConcFrame
    /\ UNCHANGED <<dirExists, disk, snapshotsLoaded, allSnapshots, crashed>>

\* the merge loop and mutex.Unlock()
TaskMerge(p) ==
    /\ ~crashed
    /\ p \in DOMAIN conc.tasks
    /\ conc.tasks[p] = "merge"
    /\ conc' = [conc EXCEPT !.tasks[p] = "done", !.loadMutex = NoPath,
                            !.snaps = MergeFile(conc.snaps, p, disk),
                            !.merged = Append(@, p),
                            !.actor = 0, !.step = "merge"]
    /\ ConcFrame
    /\ UNCHANGED <<dirExists, disk, snapshotsLoaded, allSnapshots, crashed>>

\* wg.Wait() returns, allSnapshots is assigned, Do is done
LoadDone(t) ==
    /\ ~crashed
    /\ conc.pc[t] = "wait"
    /\ \A p \in DOMAIN conc.tasks : conc.tasks[p] = "done"
    /\ allSnapshots' = conc.snaps
    /\ snapshotsLoaded' = TRUE
    /\ conc' = [conc EXCEPT !.pc[t] = "get", !.once = "done",
                            !.actor = t, !.step = "loaded"]
    /\ ConcFrame
    /\ UNCHANGED <<dirExists, disk, crashed>>

\* getSnapshot after its loadSnapshots: return allSnapshots[id], and the
\* branch on nil in createOrUpdateSnapshot
Get(t) ==
    /\ ~crashed
    /\ conc.pc[t] = "get"
    /\ LET found == conc.id[t] \in DOMAIN allSnapshots
       IN  conc' = [conc EXCEPT
                      !.found[t] = found,
                      !.existing[t] = IF found THEN allSnapshots[conc.id[t]].value ELSE <<>>,
                      !.failed[t] = ~found /\ ~args.shouldUpdate,
                      !.pc[t] = IF found THEN "mark"
                                ELSE IF args.shouldUpdate THEN "lock" ELSE "done",
                      !.actor = t, !.step = "get"]
    /\ ConcFrame
    /\ UNCHANGED <<dirExists, disk, snapshotsLoaded, allSnapshots, crashed>>

\* snapshot.evaluated = true on the record found
Mark(t) ==
    /\ ~crashed
    /\ conc.pc[t] = "mark"
    /\ allSnapshots' = [allSnapshots EXCEPT ![conc.id[t]].evaluated = TRUE]
    /\ conc' = [conc EXCEPT !.pc[t] = "compare", !.actor = t, !.step = "mark"]
    /\ ConcFrame
    /\ UNCHANGED <<dirExists, disk, snapshotsLoaded, crashed>>

\* the comparison and the branch on the diff
Compare(t) ==
    /\ ~crashed
    /\ conc.pc[t] = "compare"
    /\ LET diff == compare(conc.id[t], conc.existing[t], conc.data[t], SnapshotGeneric)
       IN  conc' = [conc EXCEPT
                      !.failed[t] = diff # <<>> /\ ~args.shouldUpdate,
                      !.pc[t] = IF diff # <<>> /\ args.shouldUpdate THEN "lock" ELSE "done",
                      !.actor = t, !.step = "compare"]
    /\ ConcFrame
    /\ UNCHANGED <<dirExists, disk, snapshotsLoaded, allSnapshots, crashed>>

\* writeSnapshot up to allSnapMutex.Lock()
Lock(t) ==
    /\ ~crashed
    /\ conc.pc[t] = "lock"
    /\ conc.mutex = 0
    /\ conc' = [conc EXCEPT !.pc[t] = "insert", !.mutex = t,
                            !.actor = t, !.step = "lock"]
    /\ ConcFrame
    /\ UNCHANGED <<dirExists, disk, snapshotsLoaded, allSnapshots, crashed>>

\* allSnapshots[id] = s
Insert(t) ==
    /\ ~crashed
    /\ conc.pc[t] = "insert"
    /\ allSnapshots' =
           writeSnapshot(allSnapshots, disk, conc.id[t], conc.data[t], conc.found[t]).snaps
    /\ conc' = [conc EXCEPT !.pc[t] = "unlock", !.actor = t, !.step = "insert"]
    /\ ConcFrame
    /\ UNCHANGED <<dirExists, disk, snapshotsLoaded, crashed>>

\* allSnapMutex.Unlock()
Unlock(t) ==
    /\ ~crashed
    /\ conc.pc[t] = "unlock"
    /\ conc' = [conc EXCEPT !.pc[t] = "group", !.mutex = 0,
                            !.actor = t, !.step = "unlock"]
    /\ ConcFrame
    /\ UNCHANGED <<dirExists, disk, snapshotsLoaded, allSnapshots, crashed>>

\* save, first loop: the records of the registry are grouped by path; what
\* each path's file is to hold is fixed by the records seen here
Group(t) ==
    /\ ~crashed
    /\ conc.pc[t] = "group"
    /\ conc' = [conc EXCEPT
                  !.buf[t] = [p \in SavedPaths(allSnapshots) |->
                                 encode(SnapshotMap(allSnapshots, p))],
                  !.pc[t] = "write", !.actor = t, !.step = "group"]
    /\ ConcFrame
    /\ UNCHANGED <<dirExists, disk, snapshotsLoaded, allSnapshots, crashed>>

\* save, second loop: ioutil.WriteFile of one path; after the last one
\* writeSnapshot returns
Write(t, p) ==
    /\ ~crashed
    /\ conc.pc[t] = "write"
    /\ p \in DOMAIN conc.buf[t]
    /\ disk' = [q \in DOMAIN disk \cup {p} |-> IF q = p THEN conc.buf[t][p] ELSE disk[q]]
    /\ LET rest == [q \in DOMAIN conc.buf[t] \ {p} |-> conc.buf[t][q]]
       IN  conc' = [conc EXCEPT
                      !.buf[t] = rest,
                      !.wrote[t] = TRUE,
                      !.pc[t] = IF DOMAIN rest # {} THEN "write"
                                ELSE IF conc.found[t] THEN "done" ELSE "markNew",
                      !.actor = t, !.step = "write"]
    /\ ConcFrame
    /\ UNCHANGED <<dirExists, snapshotsLoaded, allSnapshots, crashed>>

\* snapshot.evaluated = true on the record created
MarkNew(t) ==
    /\ ~crashed
    /\ conc.pc[t] = "markNew"
    /\ allSnapshots' = [allSnapshots EXCEPT ![conc.id[t]].evaluated = TRUE]
    /\ conc' = [conc EXCEPT !.pc[t] = "done", !.actor = t, !.step = "markNew"]
    /\ ConcFrame
    /\ UNCHANGED <<dirExists, disk, snapshotsLoaded, crashed>>

\* the Go run time ends the process when it sees a map read or iterated
\* while another goroutine writes it (getSnapshot and save take no lock)
RaceCrash ==
    /\ ~crashed
    /\ \E t, u \in Tests :
          /\ t # u
          /\ conc.pc[t] = "insert"
          /\ conc.pc[u] \in {"get", "group"}
    /\ crashed' = TRUE
    /\ conc' = [conc EXCEPT !.actor = 0, !.step = "fatal"]
    /\ ConcFrame
    /\ UNCHANGED <<dirExists, disk, snapshotsLoaded, allSnapshots>>

\* the paths of the files of the snapshot directory
ConcPaths == {FilePath(f) : f \in FileNames}

NextConc ==
    \/ \E t \in Tests : OnceEnter(t)
    \/ \E t \in Tests : OnceSkip(t)
    \/ \E t \in Tests : Scan(t)
    \/ \E p \in ConcPaths : TaskRead(p)
    \/ \E p \in ConcPaths : TaskLock(p)
    \/ \E p \in ConcPaths : TaskMerge(p)
    \/ \E t \in Tests : LoadDone(t)
    \/ \E t \in Tests : Get(t)
    \/ \E t \in Tests : Mark(t)
    \/ \E t \in Tests : Compare(t)
    \/ \E t \in Tests : Lock(t)
    \/ \E t \in Tests : Insert(t)
    \/ \E t \in Tests : Unlock(t)
    \/ \E t \in Tests : Group(t)
    \/ \E t \in Tests, p \in ConcPaths : Write(t, p)
    \/ \E t \in Tests : MarkNew(t)
    \/ RaceCrash

SpecConc == InitConc /\ [][NextConc]_vars

----------------------------------------------------------------------------
(* what a file holds *)

\* the segments of a file content that follow a delimiter
Blocks(content) == Tail(Split(content, snapshotSeparator))

\* the content holds a block "/* snapshot: <id> */" followed by the value;
\* white space at the end of a block is not significant (the file is
\* trimmed on write and blocks are separated by blank lines)
HasBlock(content, id, value) ==
    \E k \in 1..Len(Blocks(content)) :
        TrimRight(Blocks(content)[k]) = TrimRight(id \o <<" */", "\n">> \o value)

\* the content holds a block of this identifier, whatever its value
HasId(content, id) ==
    \E k \in 1..Len(Blocks(content)) :
        TrimRight(SplitAfterN2(Blocks(content)[k], "\n")[1]) = id \o <<" */">>

\* the record of id is in its owning file with its current value
OnDisk(snaps, dsk, id) ==
    /\ snaps[id].path \in DOMAIN dsk
    /\ HasBlock(dsk[snaps[id].path], id, snaps[id].value)

\* the values getSnapshot(id) can return, in the state before the call
StoredValues(id) ==
    {snaps[id].value : snaps \in {r \in LoadedSnapshots : id \in DOMAIN r}}

----------------------------------------------------------------------------
(* C1 *)

C1Step ==
    (ret'.op = "createOrUpdateSnapshot" /\ ret'.found) =>
        LET id == ret'.id
            mismatch == ret'.diff # <<>>
        IN  /\ ret'.existing \in StoredValues(id)
            /\ ~ret'.fatal
            /\ ret'.failed <=> (mismatch /\ ~args.shouldUpdate)
            /\ ret'.updated <=> (mismatch /\ args.shouldUpdate)
            /\ ret'.updated =>
                   /\ allSnapshots'[id].value = ret'.data
                   /\ OnDisk(allSnapshots', disk', id)
            /\ ~ret'.updated =>
                   /\ allSnapshots'[id].value = ret'.existing
                   /\ disk' = disk

\* C1: an assertion on an identifier that has a record fails the test
\* exactly when the diff is not empty and update mode is off; it overwrites
\* the stored value with the computed value and persists it exactly when
\* the diff is not empty and update mode is on, and then the test is not
\* failed; in every other case the stored value and the disk are unchanged,
\* and with an empty diff the test passes.
C1_FoundOutcome == [][C1Step]_vars

\* an assertion found a record that differs and overwrote it
C1_Witness ==
    /\ ret.op = "createOrUpdateSnapshot"
    /\ ret.found
    /\ ret.updated
    /\ ~ret.failed
    /\ ret.existing # ret.data
    /\ allSnapshots[ret.id].value = ret.data

----------------------------------------------------------------------------
(* C2 *)

\* C2: after an assertion on an identifier without record in update mode,
\* the registry holds a record of the identifier with the computed value,
\* the path <snapshot-dir>/<package-name>.snapshot and evaluated = true,
\* that file holds the block of the identifier and the value, and the test
\* is not failed.
C2_Created ==
    (ret.op = "createOrUpdateSnapshot" /\ ~ret.panicked /\ ~ret.found
        /\ args.shouldUpdate) =>
        /\ ret.id \in DOMAIN allSnapshots
        /\ allSnapshots[ret.id].id = ret.id
        /\ allSnapshots[ret.id].value = ret.data
        /\ allSnapshots[ret.id].path = "/src/pkg/__snapshots__/pkg.snapshot"
        /\ allSnapshots[ret.id].evaluated
        /\ "/src/pkg/__snapshots__/pkg.snapshot" \in DOMAIN disk
        /\ HasBlock(disk["/src/pkg/__snapshots__/pkg.snapshot"], ret.id, ret.data)
        /\ ~ret.failed
        /\ ~ret.fatal

\* an assertion created a snapshot in a directory that did not exist
C2_Witness ==
    /\ ret.op = "createOrUpdateSnapshot"
    /\ ~ret.panicked
    /\ ~ret.found
    /\ args.shouldUpdate
    /\ ret.created
    /\ ret.data = <<"h">>
    /\ disk = ("/src/pkg/__snapshots__/pkg.snapshot" :>
                  <<snapshotSeparator>> \o ret.id \o <<" */", "\n", "h">>)

----------------------------------------------------------------------------
(* C3 *)

C3Step ==
    (ret'.op = "createOrUpdateSnapshot" /\ ~ret'.panicked /\ ~ret'.found
        /\ ~args.shouldUpdate) =>
        /\ ret'.failed
        /\ ret'.msg = <<"\n\n## New snapshot found...\n", "## \"">> \o ret'.id
                      \o <<"\"\n\n">> \o ret'.data
                      \o <<"\n\n", "To save, run tests again, $ go test -v -- -u\n">>
        /\ ret'.id \notin DOMAIN allSnapshots'
        /\ allSnapshots' \in LoadedSnapshots
        /\ disk' = disk
        /\ ~ret'.created /\ ~ret'.updated /\ ~ret'.saved

\* C3: an assertion on an identifier without record with update mode off
\* fails the test with the "new snapshot" message that carries the computed
\* value, adds no record and writes no file: the disk is unchanged and the
\* registry is the one the load gives (unchanged once loaded).
C3_NewSnapshotFails == [][C3Step]_vars

\* an assertion of a new identifier failed against a loaded registry
C3_Witness ==
    /\ ret.op = "createOrUpdateSnapshot"
    /\ ~ret.found
    /\ ~args.shouldUpdate
    /\ ret.failed
    /\ ret.id = IdB
    /\ ret.data = <<"h">>
    /\ DOMAIN allSnapshots = {IdA}
    /\ nCalls = 2

----------------------------------------------------------------------------
(* C4 *)

\* the call of this step repeats the call before it, which wrote the snapshot
RepeatsWrite ==
    /\ ret.op = "createOrUpdateSnapshot"
    /\ ret.created \/ ret.updated
    /\ ret'.op = "createOrUpdateSnapshot"
    /\ ret'.id = ret.id
    /\ ret'.data = ret.data
    /\ ret'.format = ret.format

C4Step ==
    RepeatsWrite => ret'.diff = <<>> /\ ~ret'.failed /\ ~ret'.updated

\* C4: after an assertion created or overwrote the snapshot of an
\* identifier with a value, the next assertion of the same identifier with
\* the same value computes an empty diff: it neither fails the test nor
\* updates again.
C4_Idempotent == [][C4Step]_vars

----------------------------------------------------------------------------
(* C5 *)

\* what decoding the file at path gives for an identifier: its value, or
\* that the file holds no block of it, or that decode panics on the file
DiskPair(dsk, path, id) ==
    IF path \notin DOMAIN dsk THEN <<"no file">>
    ELSE IF DecodePanics(dsk[path]) THEN <<"decode panics">>
    ELSE IF id \in DOMAIN decode(dsk[path])
         THEN <<"value", decode(dsk[path])[id].value>>
         ELSE <<"no block">>

\* the record of y and its pair on disk are the same before (registry snaps,
\* this state's disk) and after the step
Unrelated(snaps, y) ==
    /\ y \in DOMAIN snaps
    /\ snaps[y].value = allSnapshots'[y].value
    /\ snaps[y].path = allSnapshots'[y].path
    /\ snaps[y].evaluated = allSnapshots'[y].evaluated
    /\ DiskPair(disk, snaps[y].path, y) = DiskPair(disk', snaps[y].path, y)

C5Step ==
    (ret'.op = "createOrUpdateSnapshot" /\ (ret'.created \/ ret'.updated)) =>
        \E snaps \in LoadedSnapshots :
            /\ DOMAIN allSnapshots' \ {ret'.id} = DOMAIN snaps \ {ret'.id}
            /\ \A y \in DOMAIN snaps \ {ret'.id} : Unrelated(snaps, y)

\* C5: creating or updating the snapshot of an identifier leaves every
\* other identifier as it was: its value, path and evaluated flag in the
\* registry, and the pair decoded from its block on disk.
C5_Frame == [][C5Step]_vars

----------------------------------------------------------------------------
(* C6 *)

\* the records no assertion of this run found or created
NeverEvaluated == DOMAIN allSnapshots \ touched

C6Step ==
    ret'.op = "CleanupOrFail" =>
        IF args.singleRun
        THEN /\ ret'.err = ""
             /\ allSnapshots' = allSnapshots
             /\ disk' = disk
        ELSE IF args.shouldUpdate
        THEN /\ ret'.err = ""
             /\ allSnapshots' = MarkUnused(allSnapshots)
             /\ disk' = save(MarkUnused(allSnapshots), disk)
             /\ ret'.stdout = RemovedNotices(allSnapshots)
        ELSE /\ ret'.err # "" <=> NeverEvaluated # {}
             /\ ret'.err # "" =>
                    ret'.err = ToString(Cardinality(NeverEvaluated)) \o " unused snapshots"
             /\ allSnapshots' = allSnapshots
             /\ disk' = disk

\* C6: CleanupOrFail in single-run mode returns nil and changes neither
\* registry nor disk; otherwise in update mode it does what Cleanup does;
\* otherwise it returns an error exactly when a record was never evaluated
\* in the run, the error carries the number of such records, and it marks
\* no record and writes no file.
C6_CleanupOrFail == [][C6Step]_vars

\* CleanupOrFail counted two records that no assertion evaluated
C6_Witness ==
    /\ ret.op = "CleanupOrFail"
    /\ ~args.singleRun
    /\ ~args.shouldUpdate
    /\ ret.err = "2 unused snapshots"
    /\ Cardinality(DOMAIN allSnapshots) = 3

----------------------------------------------------------------------------
(* C7 *)

\* no Cleanup of this run has marked a record yet
FirstCleanup == \A i \in DOMAIN allSnapshots : ~allSnapshots[i].shouldRemove

\* the record of id has no block in its owning file
Absent(snaps, dsk, id) ==
    snaps[id].path \in DOMAIN dsk => ~HasId(dsk[snaps[id].path], id)

C7Step ==
    (ret'.op = "Cleanup" /\ ret'.err = "" /\ FirstCleanup) =>
        \A i \in DOMAIN allSnapshots' :
            /\ Absent(allSnapshots', disk', i) <=>
                   (i \notin touched /\ args.shouldUpdate /\ ~args.singleRun)
            /\ ~Absent(allSnapshots', disk', i) => OnDisk(allSnapshots', disk', i)

\* C7: after the Cleanup that ends a run returns without error, a record of
\* the registry has no block in its snapshot file exactly when no assertion
\* of the run evaluated it and update mode is on and single-run mode is off;
\* every other record is in its file with its current value.
C7_CleanupPrunes == [][C7Step]_vars

\* Cleanup removed one record from disk and kept another
C7_Witness ==
    /\ ret.op = "Cleanup"
    /\ \E i, j \in DOMAIN allSnapshots :
          /\ allSnapshots[i].shouldRemove
          /\ Absent(allSnapshots, disk, i)
          /\ i \notin touched
          /\ j \in touched
          /\ OnDisk(allSnapshots, disk, j)

----------------------------------------------------------------------------
(* C8 *)

\* the flag of every record tells whether an assertion of this run found
\* or created it
FlagsFollowAssertions ==
    \A i \in DOMAIN allSnapshots : allSnapshots[i].evaluated <=> i \in touched

C8Step ==
    /\ FlagsFollowAssertions'
    /\ (~snapshotsLoaded /\ snapshotsLoaded') =>
           \A i \in DOMAIN allSnapshots' \ {ret'.id} : ~allSnapshots'[i].evaluated
    /\ \A i \in DOMAIN allSnapshots :
           allSnapshots[i].evaluated =>
               i \in DOMAIN allSnapshots' /\ allSnapshots'[i].evaluated

\* C8: the records a load brings in are not evaluated; after every call a
\* record's evaluated flag is true exactly when an assertion of this run
\* found the record or created it; and a flag that is true stays true, the
\* record staying in the registry, also when an update replaces the record.
C8_EvaluatedFlag == [][C8Step]_vars

\* an update replaced a record that an earlier assertion had evaluated, and
\* another loaded record is still unevaluated
C8_Witness ==
    /\ ret.op = "createOrUpdateSnapshot"
    /\ ret.updated
    /\ nCalls >= 2
    /\ allSnapshots[ret.id].evaluated
    /\ \E j \in DOMAIN allSnapshots : ~allSnapshots[j].evaluated

----------------------------------------------------------------------------
(* C9 *)

\* the registry records a file is rewritten from
KeptAt(p) ==
    LET ids == {i \in DOMAIN allSnapshots :
                  allSnapshots[i].path = p /\ ~allSnapshots[i].shouldRemove}
    IN  [i \in ids |-> allSnapshots[i]]

\* the paths that own at least one registry record
OwningPaths == {allSnapshots[i].path : i \in DOMAIN allSnapshots}

\* C9: after every successful save (by create, update or Cleanup) each file
\* whose path owns a registry record holds exactly the encoding of the
\* records of that path that are not marked shouldRemove; a record marked
\* shouldRemove has no block in a written file; and nothing is written for
\* the empty path.
C9_Persistence ==
    (ret.saved /\ ret.err = "" /\ ~ret.fatal) =>
        /\ \A p \in OwningPaths \ {NoPath} :
              /\ p \in DOMAIN disk
              /\ disk[p] = encode(KeptAt(p))
        /\ \A i \in DOMAIN allSnapshots :
              allSnapshots[i].shouldRemove =>
                  \A p \in OwningPaths \ {NoPath} : ~HasId(disk[p], i)
        /\ NoPath \notin DOMAIN disk

\* a save rewrote two files and left out a record marked shouldRemove
C9_Witness ==
    /\ ret.saved
    /\ Cardinality(OwningPaths) = 2
    /\ \E i, j \in DOMAIN allSnapshots :
          /\ allSnapshots[i].shouldRemove
          /\ ~allSnapshots[j].shouldRemove
          /\ allSnapshots[i].path = allSnapshots[j].path
          /\ disk[allSnapshots[j].path] # <<>>

----------------------------------------------------------------------------
(* C10 *)

\* the id -> value pairs of a record set
Pairs(snaps) == [i \in DOMAIN snaps |-> snaps[i].value]

\* a record set assertions can produce: no newline in an identifier, values
\* trimmed and free of the delimiter
WellFormedSnaps(snaps) ==
    \A i \in DOMAIN snaps :
        /\ Index(snaps[i].id, "\n") = 0
        /\ TrimSpace(snaps[i].value) = snaps[i].value
        /\ Index(snaps[i].value, snapshotSeparator) = 0

\* a decode has just read what encode made of the record set codec.before
DecodedAfterEncode == codec.last = "decode" /\ codec.n >= 2

\* C10: decoding the encoding of a well-formed record set does not fail and
\* gives exactly the id -> value pairs of the set, an empty value in the
\* last identifier included; this covers the record set decoded from a
\* well-formed file content b, so encode(decode(b)) decodes to the pairs of b.
C10_RoundTrip ==
    (DecodedAfterEncode /\ WellFormedSnaps(codec.before)) =>
        /\ codec.phase # "panic"
        /\ Pairs(codec.snaps) = Pairs(codec.before)

----------------------------------------------------------------------------
(* C11 *)

\* the identifiers of the blocks of a file content, in the order of the file
BlockIds(content) ==
    [k \in 1..Len(Blocks(content)) |->
        TrimSuffix(TrimRight(SplitAfterN2(Blocks(content)[k], "\n")[1]), <<" */">>)]

\* strictly ascending in the ordinal string order
Ascending(ids) == \A k \in 1..(Len(ids) - 1) : StrLess(ids[k], ids[k + 1])

\* a record set of the same id -> value pairs, with other paths and flags
SamePairs(snaps, path, flag) ==
    [i \in DOMAIN snaps |->
        [snaps[i] EXCEPT !.path = path, !.evaluated = flag, !.shouldRemove = flag]]

\* C11: encode writes one block per record, in ascending ordinal order of
\* the identifiers, whatever the order in which the range visits the map;
\* an encode of a record set of equal id -> value pairs, in any iteration
\* order, gives the same bytes.
C11_Deterministic ==
    codec.last = "encode" =>
        /\ Len(BlockIds(codec.data)) = Cardinality(DOMAIN codec.before)
        /\ {BlockIds(codec.data)[k] : k \in 1..Len(BlockIds(codec.data))}
               = DOMAIN codec.before
        /\ Ascending(BlockIds(codec.data))
        /\ \A ids \in Orders(DOMAIN codec.before) :
              /\ encodeRange(codec.before, ids) = codec.data
              /\ encodeRange(SamePairs(codec.before, PkgPath, TRUE), ids) = codec.data

\* encode was given four records and its range visited them out of order
C11_Witness ==
    /\ codec.last = "encode"
    /\ Len(codec.order) = 4
    /\ ~Ascending(codec.order)
    /\ codec.order[1] = <<"b">>
    /\ codec.order[4] = <<"H">>

----------------------------------------------------------------------------
(* C12 *)

\* the last call compared a stored dump and a new dump as HTTP with JSON body
ComparedHTTPJSON ==
    /\ ret.op = "createOrUpdateSnapshot"
    /\ ret.found
    /\ ret.format = SnapshotHTTPRespJSON

\* the two sides of that comparison, as compareResultsHTTPRequestJSON sees them
ExistingRequest == CleanRequest(ret.existing)
NewRequest == CleanRequest(TrimSpace(ret.data))

\* C12: when the stored dump and the new dump have equal header blocks and
\* both bodies are the empty string, the HTTP-JSON comparison returns the
\* empty string: the assertion is a match, the test is not failed and
\* nothing is updated.
C12_BothEmpty ==
    (/\ ComparedHTTPJSON
     /\ headerDump(ExistingRequest) = headerDump(NewRequest)
     /\ ExistingRequest.body = <<>>
     /\ NewRequest.body = <<>>) =>
        /\ ret.diff = <<>>
        /\ ~ret.failed
        /\ ~ret.updated

----------------------------------------------------------------------------
(* C13 *)

\* the structural comparison of the two bodies found a superset match
ClassifiedSuperset ==
    jsondiffCompare(ExistingRequest.body, NewRequest.body) = "SupersetMatch"

\* C13: when the header blocks are equal and the structural JSON comparison
\* classifies the two bodies as a superset match, the comparison returns an
\* empty diff and the assertion passes: no failure and no update.
C13_SupersetAccepted ==
    (/\ ComparedHTTPJSON
     /\ headerDump(ExistingRequest) = headerDump(NewRequest)
     /\ ClassifiedSuperset) =>
        /\ ret.diff = <<>>
        /\ ~ret.failed
        /\ ~ret.updated

----------------------------------------------------------------------------
(* C14 *)

\* every member of a key of the table, in an object at any depth (through
\* objects and arrays, arrays in arrays included), has the default as value
RECURSIVE KeysDefaulted(_)
KeysDefaulted(v) ==
    IF v.t = "a" THEN \A j \in 1..Len(v.e) : KeysDefaulted(v.e[j])
    ELSE IF v.t = "o"
    THEN \A i \in 1..Len(v.m) :
            IF v.m[i].key \in DOMAIN SubstDefaults
            THEN v.m[i].val = SubstDefaults[v.m[i].key]
            ELSE KeysDefaulted(v.m[i].val)
    ELSE TRUE

\* the two values differ at most in the values of keys of the table
RECURSIVE OthersUntouched(_, _)
OthersUntouched(a, b) ==
    /\ a.t = b.t
    /\ a.v = b.v
    /\ Len(a.e) = Len(b.e)
    /\ \A j \in 1..Len(a.e) : OthersUntouched(a.e[j], b.e[j])
    /\ Len(a.m) = Len(b.m)
    /\ \A i \in 1..Len(a.m) :
          /\ a.m[i].key = b.m[i].key
          /\ a.m[i].key \notin DOMAIN SubstDefaults =>
                 OthersUntouched(a.m[i].val, b.m[i].val)

\* C14: after the body normalization every occurrence of a key of the
\* default table, in any object at any depth, has the configured default as
\* its value, whatever its value was (scalar, object or array) and also
\* when the object is reached through arrays in arrays; the values of the
\* other keys are untouched.
C14_KeySubstitution ==
    jsonDoc.phase = "clean" =>
        /\ KeysDefaulted(jsonDoc.doc)
        /\ OthersUntouched(jsonDoc.before, jsonDoc.doc)

----------------------------------------------------------------------------
(* C15 *)

\* the steps of a test that change the shared registry or persist it
MutatingSteps == {"insert", "mark", "markNew", "write"}

\* positions at which the next step of a test changes the registry, and at
\* which it reads, iterates or persists it
Modifying(t) == conc.pc[t] \in {"insert", "mark", "markNew"}
Reading(t) == conc.pc[t] \in {"get", "group", "write"}

C15Step ==
    /\ conc'.step \in MutatingSteps => conc.mutex = conc'.actor
    /\ \A t, u \in Tests : (t # u /\ Modifying(t) /\ Reading(u)) => conc.mutex = t

\* C15: with tests in parallel, every step that inserts or replaces a
\* record, sets a flag of a record or writes a snapshot file is taken by a
\* test that holds allSnapMutex, and no test is about to read, iterate or
\* persist the registry while another test, not holding the lock, is about
\* to modify it.
C15_LockHeld == [][C15Step]_vars

----------------------------------------------------------------------------
(* C16 *)

\* the steps of the load, and the steps of a test that read or write the
\* registry
LoadSteps == {"enter", "scan", "read", "tasklock", "merge", "loaded"}
RegistrySteps == {"get", "mark", "insert", "group", "markNew"}

C16Step ==
    /\ conc'.loads <= 1
    /\ conc'.step \in RegistrySteps => (conc.once = "done" /\ conc.loads = 1)
    /\ conc'.step = "loaded" =>
           allSnapshots' \in parseSnapshotsFromPaths(SnapshotPaths(disk), disk)
    /\ (conc'.actor \in Tests /\ conc.once = "running") =>
           conc.pc[conc'.actor] # "start"
    /\ conc.once = "done" =>
           /\ conc'.once = "done"
           /\ conc'.step \notin LoadSteps
           /\ DOMAIN allSnapshots \subseteq DOMAIN allSnapshots'

\* C16: with tests calling in parallel, reloadSnapshots is entered at most
\* once in the run; a test that calls while the load runs takes no step
\* until it is done; no test reads or writes the registry before the load
\* has assigned the registry of all snapshot files; and after the load the
\* registry is never loaded again or reset.
C16_LoadOnce == [][C16Step]_vars

\* both tests have returned after one load of three records
C16_Witness ==
    /\ conc.once = "done"
    /\ conc.loads = 1
    /\ \A t \in Tests : conc.pc[t] = "done"
    /\ Cardinality(DOMAIN allSnapshots) = 3
    /\ conc.merged # <<>>

----------------------------------------------------------------------------
(* C17 *)

\* a file content decode cannot take as a sequence of blocks: text before
\* the first delimiter, or a delimiter line that no newline follows
Undecodable(content) ==
    \/ Split(content, snapshotSeparator)[1] # <<>>
    \/ DecodePanics(content)

C17Step ==
    (~snapshotsLoaded /\ ret'.op = "createOrUpdateSnapshot") =>
        /\ ~crashed'
        /\ ~ret'.panicked
        /\ snapshotsLoaded'
        /\ \A p \in SnapshotPaths(disk) :
              IF Undecodable(disk[p])
              THEN \A i \in DOMAIN allSnapshots' \ {ret'.id} : allSnapshots'[i].path # p
              ELSE \A i \in DOMAIN decode(disk[p]) : i \in DOMAIN allSnapshots'

\* C17: the load an assertion starts aborts neither itself nor the process
\* when a snapshot file cannot be decoded; such a file gives the registry
\* no record, and the records of every other file are loaded.
C17_TolerantLoad == [][C17Step]_vars

----------------------------------------------------------------------------
(* C18 *)

\* the snapshot files that define the identifier
Definers(i) == {p \in SnapshotPaths(disk) : i \in DOMAIN decode(disk[p])}

\* the one of them that was merged last
LastMerged(i) ==
    LET k == CHOOSE n \in 1..Len(conc.merged) :
                 /\ conc.merged[n] \in Definers(i)
                 /\ \A m \in (n + 1)..Len(conc.merged) : conc.merged[m] \notin Definers(i)
    IN  conc.merged[k]

\* C18: right after the load, whatever the order in which the goroutines of
\* the files ran, the registry holds a record for exactly the identifiers
\* that some snapshot file defines; value and path of each record are those
\* of the defining file merged last, and its flags are false.
C18_LoadMerge ==
    conc.step = "loaded" =>
        /\ {conc.merged[n] : n \in 1..Len(conc.merged)} = SnapshotPaths(disk)
        /\ DOMAIN allSnapshots = UNION {DOMAIN decode(disk[p]) : p \in SnapshotPaths(disk)}
        /\ \A i \in DOMAIN allSnapshots :
              /\ allSnapshots[i].id = i
              /\ allSnapshots[i].path = LastMerged(i)
              /\ allSnapshots[i].value = decode(disk[LastMerged(i)])[i].value
              /\ ~allSnapshots[i].evaluated
              /\ ~allSnapshots[i].shouldRemove

\* two files define b, and the load merged the package's file last
C18_Witness ==
    /\ conc.step = "loaded"
    /\ Definers(IdB) = {PkgPath, OtherPath}
    /\ conc.merged = <<OtherPath, PkgPath>>
    /\ allSnapshots[IdB].path = PkgPath
    /\ allSnapshots[IdB].value = <<"w">>
    /\ allSnapshots[IdC].path = OtherPath

----------------------------------------------------------------------------
(* C19 *)

\* both tests created or overwrote their snapshot and have returned
BothWrote ==
    /\ ~crashed
    /\ \A t \in Tests : conc.pc[t] = "done" /\ conc.wrote[t] /\ ~conc.failed[t]

\* C19: when two tests in parallel each create or overwrite a snapshot of
\* a different identifier in update mode, then after both have returned
\* the package's snapshot file holds the block of both identifiers with
\* their new values and equals the encoding of the final registry,
\* whatever the order of the insert, encode and write steps of the two.
C19_NoLostWrite ==
    BothWrote =>
        /\ disk[PkgPath] = encode(KeptAt(PkgPath))
        /\ \A t \in Tests : HasBlock(disk[PkgPath], conc.id[t], conc.data[t])

----------------------------------------------------------------------------
(* C20 *)

\* the identifiers that have a block in a file content
BlockIdSet(content) == {BlockIds(content)[k] : k \in 1..Len(BlockIds(content))}

\* every identifier occurs in at most one snapshot file
OneFilePerId(dsk) ==
    \A p, q \in SnapshotPaths(dsk) :
        p # q => BlockIdSet(dsk[p]) \cap BlockIdSet(dsk[q]) = {}

\* C20: when the run started from a snapshot directory in which every
\* identifier occurs in at most one snapshot file, then after the
\* assertions of the run and Cleanup every identifier still occurs in at
\* most one snapshot file.
C20_OneFilePerId ==
    (OneFilePerId(startDisk) /\ ret.op = "Cleanup" /\ ret.err = "") =>
        OneFilePerId(disk)

----------------------------------------------------------------------------
(* C21 *)

\* the identifiers stored in the snapshot directory that no assertion of
\* the run found or created
StoredNotAsserted ==
    UNION {BlockIdSet(disk[p]) : p \in SnapshotPaths(disk)} \ touched

\* C21: CleanupOrFail with update mode off and single-run mode off returns
\* an error whenever a snapshot stored in the snapshot directory was not
\* asserted in the run, also when the run made no assertion and so never
\* loaded the registry.
C21_StaleDetected ==
    (/\ ret.op = "CleanupOrFail"
     /\ ~args.shouldUpdate
     /\ ~args.singleRun
     /\ StoredNotAsserted # {}) =>
        ret.err # ""

=============================================================================
